---- MODULE Spec2Model ----
(***************************************************************************)
(* Event-sourcing proof of concept (tatemz/es-poc): the aggregate engine,  *)
(* the user domain, the in-memory event store and the user repository.     *)
(*                                                                         *)
(* Aggregates are immutable values; a writer holds the value returned by   *)
(* the last operation it called.  The event store keeps one log,           *)
(* storedEvents, which only saveEvents reassigns.                          *)
(***************************************************************************)
EXTENDS Naturals, Sequences, FiniteSets, TLC

VARIABLES
    storedEvents,   \* EventStore.makeInMemory: the closure's log
    agg,            \* per writer: the aggregate value it holds, or NoAgg
    applied,        \* per writer: events applied to that instance since empty(id)
    replayFirst,    \* per writer: no event was replayed (isNew false) onto that
                    \* instance while it had uncommitted changes
    op,             \* the last operation called: name, writer, arguments, result
    eventsByAggregate
                    \* the partitioned makeInMemory: the closure's record of
                    \* one event array per aggregate id

vars == <<storedEvents, agg, applied, replayFirst, op, eventsByAggregate>>

----------------------------------------------------------------------------
(* Bounds of the model *)

\* most events applied to one in-memory aggregate instance
MaxApplied == 3
\* most uncommitted changes on an aggregate a writer goes on updating
MaxPending == 2
\* most events in the store log
MaxLog == 3
\* longest batch handed to saveEvents directly
MaxBatch == 2
\* most events in the store log when every kind of operation is interleaved
MaxShared == 2

Writers == {"w1", "w2"}
Ids == {"u1", "u2"}
FirstNames == {"A", "B"}
\* the first names the writers create users with, and rename them to
CreateNames == {"A"}
UpdateNames == {"B"}
LastNames == {"S"}
Phones == {"5"}
\* an optional argument left out
Undefined == "<undefined>"

----------------------------------------------------------------------------
(* effect: Option, Array *)

none == [_tag |-> "None"]
some(v) == [_tag |-> "Some", value |-> v]

\* Array.contains(self, a)
Contains(self, a) == \E i \in DOMAIN self : self[i] = a

\* Array.appendAll(self, that)
appendAll(self, that) == self \o that

----------------------------------------------------------------------------
(* User events *)

EventTags == <<"UserCreated", "FirstNameUpdated", "PhoneNumberUpdated">>

EventTagSet == {EventTags[i] : i \in DOMAIN EventTags}

\* JavaScript truthiness of an optional string argument
Truthy(s) == s # Undefined /\ s # ""

UserCreated(aggregateId, firstName, lastName, phoneNumber) ==
    [_tag |-> "UserCreated", aggregateId |-> aggregateId,
     payload |-> IF Truthy(phoneNumber)
                 THEN [firstName |-> firstName, lastName |-> lastName,
                       phoneNumber |-> phoneNumber]
                 ELSE [firstName |-> firstName, lastName |-> lastName]]

FirstNameUpdated(aggregateId, firstName) ==
    [_tag |-> "FirstNameUpdated", aggregateId |-> aggregateId,
     payload |-> [firstName |-> firstName]]

PhoneNumberUpdated(aggregateId, phoneNumber) ==
    [_tag |-> "PhoneNumberUpdated", aggregateId |-> aggregateId,
     payload |-> [phoneNumber |-> phoneNumber]]

\* the user events over the model's names, for one entity
EventsOf(id) ==
    {UserCreated(id, f, l, p) : f \in FirstNames, l \in LastNames,
                                p \in Phones \cup {Undefined}}
    \cup {FirstNameUpdated(id, f) : f \in FirstNames}
    \cup {PhoneNumberUpdated(id, p) : p \in Phones}

UserEvents == UNION {EventsOf(id) : id \in Ids}

----------------------------------------------------------------------------
(* Aggregate engine *)

NoAgg == [none |-> TRUE]

makeFactory(state, aggregateId) ==
    [aggregateId |-> aggregateId,
     state |-> state,
     committedChanges |-> <<>>,
     uncommittedChanges |-> <<>>,
     version |-> 0]

\* bug: the uncommitted changes are put in front of the committed ones
markChangesAsCommitted_Prepended(aggregate) ==
    [aggregate EXCEPT
        !.committedChanges =
            aggregate.uncommittedChanges \o aggregate.committedChanges,
        !.uncommittedChanges = <<>>]

\* markChangesAsCommitted that forgets the changes committed before
markChangesAsCommitted_DropsCommitted(aggregate) ==
    [aggregate EXCEPT
        !.committedChanges = aggregate.uncommittedChanges,
        !.uncommittedChanges = <<>>]

\* markChangesAsCommitted that leaves the uncommitted changes in place
markChangesAsCommitted_KeepsUncommitted(aggregate) ==
    [aggregate EXCEPT
        !.committedChanges =
            appendAll(aggregate.committedChanges, aggregate.uncommittedChanges)]

\* markChangesAsCommitted that counts every commit in the version
markChangesAsCommitted_CountsCommit(aggregate) ==
    [aggregate EXCEPT
        !.committedChanges =
            appendAll(aggregate.committedChanges, aggregate.uncommittedChanges),
        !.uncommittedChanges = <<>>,
        !.version = aggregate.version + 1]

markChangesAsCommitted(aggregate) ==
    [aggregate EXCEPT
        !.committedChanges =
            appendAll(aggregate.committedChanges, aggregate.uncommittedChanges),
        !.uncommittedChanges = <<>>]

----------------------------------------------------------------------------
(* User aggregate *)

empty(aggregateId) ==
    makeFactory([firstName |-> "", lastName |-> "", displayName |-> "",
                 phoneNumber |-> none], aggregateId)

\* applyEventToState whose FirstNameUpdated branch leaves displayName alone
applyEventToState_StaleDisplayName(state, event) ==
    CASE event._tag = "UserCreated" ->
            [firstName |-> event.payload.firstName,
             lastName |-> event.payload.lastName,
             displayName |-> event.payload.firstName \o " " \o event.payload.lastName,
             phoneNumber |-> IF "phoneNumber" \in DOMAIN event.payload
                             THEN some(event.payload.phoneNumber)
                             ELSE none]
      [] event._tag = "FirstNameUpdated" ->
            [state EXCEPT !.firstName = event.payload.firstName]
      [] event._tag = "PhoneNumberUpdated" ->
            [state EXCEPT !.phoneNumber = some(event.payload.phoneNumber)]

applyEventToState(state, event) ==
    CASE event._tag = "UserCreated" ->
            [firstName |-> event.payload.firstName,
             lastName |-> event.payload.lastName,
             displayName |-> event.payload.firstName \o " " \o event.payload.lastName,
             phoneNumber |-> IF "phoneNumber" \in DOMAIN event.payload
                             THEN some(event.payload.phoneNumber)
                             ELSE none]
      [] event._tag = "FirstNameUpdated" ->
            [state EXCEPT
                !.firstName = event.payload.firstName,
                !.displayName = event.payload.firstName \o " " \o state.lastName]
      [] event._tag = "PhoneNumberUpdated" ->
            [state EXCEPT !.phoneNumber = some(event.payload.phoneNumber)]

\* bug: a replayed event does not count toward the version
applyEvent_VersionOnlyWhenNew(aggregate, event, isNew) ==
    [aggregate EXCEPT
        !.state = applyEventToState(aggregate.state, event),
        !.committedChanges =
            IF isNew THEN aggregate.committedChanges
            ELSE Append(aggregate.committedChanges, event),
        !.uncommittedChanges =
            IF isNew THEN Append(aggregate.uncommittedChanges, event)
            ELSE aggregate.uncommittedChanges,
        !.version = IF isNew THEN aggregate.version + 1 ELSE aggregate.version]

\* bug: the two branches on isNew are exchanged
applyEvent_FlagSwapped(aggregate, event, isNew) ==
    [aggregate EXCEPT
        !.state = applyEventToState(aggregate.state, event),
        !.committedChanges =
            IF isNew THEN Append(aggregate.committedChanges, event)
            ELSE aggregate.committedChanges,
        !.uncommittedChanges =
            IF isNew THEN aggregate.uncommittedChanges
            ELSE Append(aggregate.uncommittedChanges, event),
        !.version = aggregate.version + 1]

\* bug: a replayed event is recorded but not reduced into the state
applyEvent_StateOnlyWhenNew(aggregate, event, isNew) ==
    [aggregate EXCEPT
        !.state = IF isNew THEN applyEventToState(aggregate.state, event)
                  ELSE aggregate.state,
        !.committedChanges =
            IF isNew THEN aggregate.committedChanges
            ELSE Append(aggregate.committedChanges, event),
        !.uncommittedChanges =
            IF isNew THEN Append(aggregate.uncommittedChanges, event)
            ELSE aggregate.uncommittedChanges,
        !.version = aggregate.version + 1]

\* Aggregate.makeEventApplier(applyEventToState)
applyEvent(aggregate, event, isNew) ==
    [aggregate EXCEPT
        !.state = applyEventToState(aggregate.state, event),
        !.committedChanges =
            IF isNew THEN aggregate.committedChanges
            ELSE Append(aggregate.committedChanges, event),
        !.uncommittedChanges =
            IF isNew THEN Append(aggregate.uncommittedChanges, event)
            ELSE aggregate.uncommittedChanges,
        !.version = aggregate.version + 1]

RECURSIVE reduceApply(_, _, _)
\* Array.reduce(events, initial, (agg, event) => applyEvent(agg, event, false)),
\* from position i
reduceApply(events, acc, i) ==
    IF i > Len(events) THEN acc
    ELSE reduceApply(events, applyEvent(acc, events[i], FALSE), i + 1)

loadFromHistory(aggregateId, events) ==
    reduceApply(events, empty(aggregateId), 1)

create(aggregateId, firstName, lastName, phoneNumber) ==
    applyEvent(empty(aggregateId),
               UserCreated(aggregateId, firstName, lastName, phoneNumber), TRUE)

\* updateFirstName that builds its event with the arguments swapped
updateFirstName_ArgumentsSwapped(aggregate, firstName) ==
    applyEvent(aggregate,
               FirstNameUpdated(firstName, aggregate.aggregateId), TRUE)

updateFirstName(aggregate, firstName) ==
    applyEvent(aggregate, FirstNameUpdated(aggregate.aggregateId, firstName), TRUE)

updatePhoneNumber(aggregate, phoneNumber) ==
    applyEvent(aggregate, PhoneNumberUpdated(aggregate.aggregateId, phoneNumber), TRUE)

----------------------------------------------------------------------------
(* In-memory event store: one log, filtered on every load *)

\* bug: only the first tag of the array is compared
hasMatchingTag_FirstTagOnly(tags, e) == Len(tags) > 0 /\ e._tag = tags[1]

hasMatchingTag(tags, e) == Contains(tags, e._tag)

loadEvents(stored, tags) ==
    SelectSeq(stored, LAMBDA e : hasMatchingTag(tags, e))

\* loadEventsForAggregate that filters by tag only
loadEventsForAggregate_AnyAggregate(stored, aggregateId, tags) ==
    loadEvents(stored, tags)

loadEventsForAggregate(stored, aggregateId, tags) ==
    SelectSeq(SelectSeq(stored, LAMBDA e : e.aggregateId = aggregateId),
              LAMBDA e : hasMatchingTag(tags, e))

\* bug: an event equal to a stored one is not stored again
saveEvents_Deduplicated(stored, aggregateId, events) ==
    appendAll(stored, SelectSeq(events, LAMBDA e : ~Contains(stored, e)))

\* bug: the new events are put in front of the log
saveEvents_Prepended(stored, aggregateId, events) == appendAll(events, stored)

\* saveEvents that takes a batch equal to the end of the log for a retry and
\* skips it
saveEvents_SkipsRepeatedBatch(stored, aggregateId, events) ==
    IF /\ events # <<>>
       /\ Len(stored) >= Len(events)
       /\ SubSeq(stored, Len(stored) - Len(events) + 1, Len(stored)) = events
    THEN stored
    ELSE appendAll(stored, events)

\* the log after saveEvents(_aggregateId, events); the id is not used
saveEvents(stored, aggregateId, events) == appendAll(stored, events)

\* bug: the committed changes are persisted again with the uncommitted ones
commit_SavesAllChanges(aggregate, stored) ==
    [stored |-> saveEvents(stored, aggregate.aggregateId,
                           appendAll(aggregate.committedChanges,
                                     aggregate.uncommittedChanges)),
     aggregate |-> markChangesAsCommitted(aggregate)]

\* commit that marks the changes committed and never hands them to the store
commit_MarksOnly(aggregate, stored) ==
    [stored |-> stored,
     aggregate |-> markChangesAsCommitted(aggregate)]

\* commit with an optimistic version check: changes made on a stale
\* aggregate are not stored
commit_VersionChecked(aggregate, stored) ==
    IF Len(loadEventsForAggregate(stored, aggregate.aggregateId, EventTags))
          = Len(aggregate.committedChanges)
    THEN [stored |-> saveEvents(stored, aggregate.aggregateId,
                                aggregate.uncommittedChanges),
          aggregate |-> markChangesAsCommitted(aggregate)]
    ELSE [stored |-> stored, aggregate |-> aggregate]

\* commit that writes the aggregate's own view of the history over the log
commit_WritesSnapshot(aggregate, stored) ==
    [stored |-> appendAll(aggregate.committedChanges,
                          aggregate.uncommittedChanges),
     aggregate |-> markChangesAsCommitted(aggregate)]

\* the log after the call, and the aggregate returned
commit(aggregate, stored) ==
    [stored |-> saveEvents(stored, aggregate.aggregateId,
                           aggregate.uncommittedChanges),
     aggregate |-> markChangesAsCommitted(aggregate)]

----------------------------------------------------------------------------
(* User repository *)

\* getById that asks the store for UserCreated events only
getById_CreatedOnly(stored, id) ==
    loadFromHistory(id, loadEventsForAggregate(stored, id, <<"UserCreated">>))

getById(stored, id) ==
    loadFromHistory(id,
        loadEventsForAggregate(stored, id, <<"UserCreated", "FirstNameUpdated">>))

save(aggregate, stored) == commit(aggregate, stored)

----------------------------------------------------------------------------
(* User directory projection.  A ProjectionRecord is kept as the sequence   *)
(* of its [key, value] entries, in the order the keys were first set.       *)

RecordHas(self, key) == \E i \in DOMAIN self : self[i].key = key

RecordGet(self, key) ==
    self[CHOOSE i \in DOMAIN self : self[i].key = key].value

RecordSet(self, key, value) ==
    IF RecordHas(self, key)
    THEN [i \in DOMAIN self |->
            IF self[i].key = key THEN [key |-> key, value |-> value] ELSE self[i]]
    ELSE Append(self, [key |-> key, value |-> value])

\* directory applyEvent that starts a user at a PhoneNumberUpdated event of
\* an id it does not know
directoryApplyEvent_UpsertsPhone(users, event) ==
    CASE event._tag = "UserCreated" ->
            RecordSet(users, event.aggregateId,
                [firstName |-> event.payload.firstName,
                 lastName |-> event.payload.lastName,
                 phoneNumber |-> IF "phoneNumber" \in DOMAIN event.payload
                                 THEN some(event.payload.phoneNumber)
                                 ELSE none])
      [] event._tag = "FirstNameUpdated" ->
            IF RecordHas(users, event.aggregateId)
            THEN RecordSet(users, event.aggregateId,
                    [RecordGet(users, event.aggregateId) EXCEPT
                        !.firstName = event.payload.firstName])
            ELSE users
      [] event._tag = "PhoneNumberUpdated" ->
            RecordSet(users, event.aggregateId,
                [(IF RecordHas(users, event.aggregateId)
                  THEN RecordGet(users, event.aggregateId)
                  ELSE [firstName |-> "", lastName |-> "", phoneNumber |-> none])
                 EXCEPT !.phoneNumber = some(event.payload.phoneNumber)])

directoryApplyEvent(users, event) ==
    CASE event._tag = "UserCreated" ->
            RecordSet(users, event.aggregateId,
                [firstName |-> event.payload.firstName,
                 lastName |-> event.payload.lastName,
                 phoneNumber |-> IF "phoneNumber" \in DOMAIN event.payload
                                 THEN some(event.payload.phoneNumber)
                                 ELSE none])
      [] event._tag = "FirstNameUpdated" ->
            IF RecordHas(users, event.aggregateId)
            THEN RecordSet(users, event.aggregateId,
                    [RecordGet(users, event.aggregateId) EXCEPT
                        !.firstName = event.payload.firstName])
            ELSE users
      [] event._tag = "PhoneNumberUpdated" ->
            IF RecordHas(users, event.aggregateId)
            THEN RecordSet(users, event.aggregateId,
                    [RecordGet(users, event.aggregateId) EXCEPT
                        !.phoneNumber = some(event.payload.phoneNumber)])
            ELSE users

RECURSIVE directoryEntries(_, _)
\* Array.filterMap over the record's entries from position i
directoryEntries(allEntries, i) ==
    IF i > Len(allEntries) THEN <<>>
    ELSE LET projection == allEntries[i].value
         IN  IF projection.phoneNumber = none
             THEN directoryEntries(allEntries, i + 1)
             ELSE <<[id |-> allEntries[i].key,
                     displayName |-> projection.firstName \o " "
                                        \o projection.lastName,
                     phoneNumber |-> projection.phoneNumber.value]>>
                  \o directoryEntries(allEntries, i + 1)

\* toDirectory that counts the users listed instead of the users known
toDirectory_CountsEntries(projections) ==
    LET entries == directoryEntries(projections, 1)
    IN  [totalUsers |-> Len(entries),
         usersWithPhone |-> Len(entries),
         entries |-> entries]

\* toDirectory that counts the users it does not list
toDirectory_CountsUnlisted(projections) ==
    LET entries == directoryEntries(projections, 1)
    IN  [totalUsers |-> Len(projections) - Len(entries),
         usersWithPhone |-> Len(entries),
         entries |-> entries]

toDirectory(projections) ==
    LET entries == directoryEntries(projections, 1)
    IN  [totalUsers |-> Len(projections),
         usersWithPhone |-> Len(entries),
         entries |-> entries]

RECURSIVE reduceDirectory(_, _, _)
\* Array.reduce(events, initial, applyEvent) from position i
reduceDirectory(events, users, i) ==
    IF i > Len(events) THEN users
    ELSE reduceDirectory(events, directoryApplyEvent(users, events[i]), i + 1)

fromEvents(events) == toDirectory(reduceDirectory(events, <<>>, 1))

\* UserDirectoryRepository.load
load(stored) == fromEvents(loadEvents(stored, EventTags))

----------------------------------------------------------------------------
(* The aggregate engine alone: one instance from empty(id), any events of   *)
(* its entity applied with either flag, commits marked at any point.        *)

InitAgg ==
    /\ storedEvents = <<>>
    /\ \E id \in Ids :
          agg = [w \in Writers |-> IF w = "w1" THEN empty(id) ELSE NoAgg]
    /\ applied = [w \in Writers |-> <<>>]
    /\ replayFirst = [w \in Writers |-> TRUE]
    /\ op = [name |-> "empty", w |-> "w1"]
    /\ eventsByAggregate = <<>>

ApplyEvent(w, event, isNew) ==
    /\ agg[w] # NoAgg
    /\ agg[w].version < MaxApplied
    /\ agg' = [agg EXCEPT ![w] = applyEvent(agg[w], event, isNew)]
    /\ applied' = [applied EXCEPT ![w] = Append(applied[w], event)]
    /\ replayFirst' = [replayFirst EXCEPT
          ![w] = @ /\ (isNew \/ agg[w].uncommittedChanges = <<>>)]
    /\ op' = [name |-> "applyEvent", w |-> w, self |-> agg[w],
              event |-> event, isNew |-> isNew]
    /\ UNCHANGED <<storedEvents, eventsByAggregate>>

MarkChangesAsCommitted(w) ==
    /\ agg[w] # NoAgg
    /\ agg' = [agg EXCEPT ![w] = markChangesAsCommitted(agg[w])]
    /\ op' = [name |-> "markChangesAsCommitted", w |-> w, self |-> agg[w]]
    /\ UNCHANGED <<storedEvents, applied, replayFirst, eventsByAggregate>>

\* event is an event of the entity whose aggregate w holds
OwnEvent(w, event) ==
    agg[w] # NoAgg /\ event.aggregateId = agg[w].aggregateId

NextAgg ==
    \E w \in Writers :
        \/ \E event \in UserEvents, isNew \in BOOLEAN :
              OwnEvent(w, event) /\ ApplyEvent(w, event, isNew)
        \/ MarkChangesAsCommitted(w)

SpecAgg == InitAgg /\ [][NextAgg]_vars

----------------------------------------------------------------------------
(* Claims about the aggregate engine, checked under SpecAgg *)

\* the aggregates held by the writers
Held == {w \in Writers : agg[w] # NoAgg}

\* committedChanges followed by uncommittedChanges
Changes(aggregate) ==
    aggregate.committedChanges \o aggregate.uncommittedChanges

\* C1: version is 0 for a fresh aggregate, one more after each applyEvent
\* whatever isNew is, the same after markChangesAsCommitted; so version =
\* length(committedChanges) + length(uncommittedChanges) = number of events
\* applied.
C1_VersionCountsApplied ==
    /\ \A w \in Held :
          /\ agg[w].version = Len(agg[w].committedChanges)
                                + Len(agg[w].uncommittedChanges)
          /\ agg[w].version = Len(applied[w])
    /\ (op.name = "empty" => agg[op.w].version = 0)
    /\ (op.name = "applyEvent" => agg[op.w].version = op.self.version + 1)
    /\ (op.name = "markChangesAsCommitted" =>
            agg[op.w].version = op.self.version)

\* a replayed event has just been applied on top of committed and
\* uncommitted ones
C1_Witness ==
    /\ op.name = "applyEvent" /\ ~op.isNew
    /\ agg[op.w].version = 3
    /\ agg[op.w].uncommittedChanges # <<>>
    /\ Len(agg[op.w].committedChanges) = 2

\* C2 as stated: after any applyEvent calls, with isNew true or false in any
\* order, and markChangesAsCommitted calls, committedChanges followed by
\* uncommittedChanges is the sequence of events applied, in order.
C2_ChangesAreHistory ==
    \A w \in Held : Changes(agg[w]) = applied[w]

\* C2 amended: the same, for the aggregates onto which every event applied
\* with isNew false was applied while uncommittedChanges was empty.
C2_ChangesAreHistoryReplayFirst ==
    \A w \in Held : replayFirst[w] => Changes(agg[w]) = applied[w]

\* replayed events, then a new one, then a commit, then another new one
C2_Witness ==
    \E w \in Held :
        /\ replayFirst[w]
        /\ op.name = "applyEvent" /\ op.isNew
        /\ Len(agg[w].committedChanges) = 2
        /\ Len(agg[w].uncommittedChanges) = 1
        /\ Len(applied[w]) = 3
        /\ applied[w][1] # applied[w][2]

\* C3: applyEvent appends the event to uncommittedChanges (isNew) or to
\* committedChanges (not isNew), leaves the other list and aggregateId as they
\* were, and removes or reorders nothing.
C3_ApplyEventAppendsOnly ==
    op.name = "applyEvent" =>
        /\ op.isNew =>
              /\ agg[op.w].uncommittedChanges
                    = Append(op.self.uncommittedChanges, op.event)
              /\ agg[op.w].committedChanges = op.self.committedChanges
        /\ ~op.isNew =>
              /\ agg[op.w].committedChanges
                    = Append(op.self.committedChanges, op.event)
              /\ agg[op.w].uncommittedChanges = op.self.uncommittedChanges
        /\ agg[op.w].aggregateId = op.self.aggregateId

\* a replayed event applied to an aggregate with both lists non-empty
C3_Witness ==
    /\ op.name = "applyEvent" /\ ~op.isNew
    /\ op.self.committedChanges # <<>>
    /\ op.self.uncommittedChanges # <<>>

RECURSIVE foldState(_, _, _)
\* the user reducer folded left to right over events from position i
foldState(events, state, i) ==
    IF i > Len(events) THEN state
    ELSE foldState(events, applyEventToState(state, events[i]), i + 1)

\* C4: the state of an aggregate is the user reducer folded over the events
\* applied to it, whatever the isNew flags and the commits in between, and so
\* is the state of loadFromHistory on those events.
C4_StateIsFold ==
    \A w \in Held :
        LET folded == foldState(applied[w], empty(agg[w].aggregateId).state, 1)
        IN  /\ agg[w].state = folded
            /\ loadFromHistory(agg[w].aggregateId, applied[w]).state = folded

\* created with a phone, renamed by a replayed event, after a commit
C4_Witness ==
    \E w \in Held :
        /\ Len(applied[w]) = 3
        /\ applied[w][1]._tag = "UserCreated"
        /\ applied[w][3]._tag = "FirstNameUpdated"
        /\ op.name = "applyEvent" /\ ~op.isNew
        /\ agg[w].uncommittedChanges # <<>>
        /\ agg[w].state.displayName = "B S"
        /\ agg[w].state.phoneNumber = some("5")

----------------------------------------------------------------------------
(* Operations of the store, the repository and the directory *)

\* the events handed to the store directly
StoreEvents ==
    UNION {{UserCreated(id, "A", "S", Undefined),
            FirstNameUpdated(id, "B"),
            PhoneNumberUpdated(id, "5")} : id \in Ids}

Batches == UNION {[1..n -> StoreEvents] : n \in 0..MaxBatch}

\* tag arrays: every run of EventTags, and one out of order that skips a tag
TagLists ==
    {SubSeq(EventTags, i, j) : i \in 1..Len(EventTags), j \in 0..Len(EventTags)}
    \cup {<<"PhoneNumberUpdated", "UserCreated">>}

\* the tag arrays the repositories pass
RepoTagLists == {<<"UserCreated", "FirstNameUpdated">>, EventTags}

\* EventStore.makeInMemory(initialEvents); no aggregate is held yet
InitStore ==
    /\ storedEvents \in UNION {[1..n -> StoreEvents] : n \in 0..1}
    /\ agg = [w \in Writers |-> NoAgg]
    /\ applied = [w \in Writers |-> <<>>]
    /\ replayFirst = [w \in Writers |-> TRUE]
    /\ op = [name |-> "makeInMemory"]
    /\ eventsByAggregate = <<>>

\* EventStore.makeInMemory()
Init ==
    /\ storedEvents = <<>>
    /\ agg = [w \in Writers |-> NoAgg]
    /\ applied = [w \in Writers |-> <<>>]
    /\ replayFirst = [w \in Writers |-> TRUE]
    /\ op = [name |-> "makeInMemory"]
    /\ eventsByAggregate = <<>>

SaveEvents(aggregateId, events) ==
    /\ Len(storedEvents) + Len(events) <= MaxLog
    /\ storedEvents' = saveEvents(storedEvents, aggregateId, events)
    /\ op' = [name |-> "saveEvents", aggregateId |-> aggregateId,
              events |-> events, before |-> storedEvents]
    /\ UNCHANGED <<agg, applied, replayFirst, eventsByAggregate>>

LoadEvents(tags) ==
    /\ op' = [name |-> "loadEvents", tags |-> tags,
              ret |-> loadEvents(storedEvents, tags)]
    /\ UNCHANGED <<storedEvents, agg, applied, replayFirst, eventsByAggregate>>

LoadEventsForAggregate(aggregateId, tags) ==
    /\ op' = [name |-> "loadEventsForAggregate", aggregateId |-> aggregateId,
              tags |-> tags,
              ret |-> loadEventsForAggregate(storedEvents, aggregateId, tags)]
    /\ UNCHANGED <<storedEvents, agg, applied, replayFirst, eventsByAggregate>>

\* w calls User.create
Create(w, aggregateId, firstName, lastName, phoneNumber) ==
    /\ agg' = [agg EXCEPT
          ![w] = create(aggregateId, firstName, lastName, phoneNumber)]
    /\ applied' = [applied EXCEPT
          ![w] = <<UserCreated(aggregateId, firstName, lastName, phoneNumber)>>]
    /\ replayFirst' = [replayFirst EXCEPT ![w] = TRUE]
    /\ op' = [name |-> "create", w |-> w, aggregateId |-> aggregateId,
              firstName |-> firstName, lastName |-> lastName,
              phoneNumber |-> phoneNumber]
    /\ UNCHANGED <<storedEvents, eventsByAggregate>>

\* w calls User.updateFirstName on the aggregate it holds
UpdateFirstName(w, firstName) ==
    /\ agg[w] # NoAgg
    /\ Len(agg[w].uncommittedChanges) < MaxPending
    /\ agg' = [agg EXCEPT ![w] = updateFirstName(agg[w], firstName)]
    /\ applied' = [applied EXCEPT
          ![w] = Append(applied[w],
                        FirstNameUpdated(agg[w].aggregateId, firstName))]
    /\ op' = [name |-> "updateFirstName", w |-> w, self |-> agg[w],
              firstName |-> firstName]
    /\ UNCHANGED <<storedEvents, replayFirst, eventsByAggregate>>

\* w calls User.updatePhoneNumber on the aggregate it holds
UpdatePhoneNumber(w, phoneNumber) ==
    /\ agg[w] # NoAgg
    /\ Len(agg[w].uncommittedChanges) < MaxPending
    /\ agg' = [agg EXCEPT ![w] = updatePhoneNumber(agg[w], phoneNumber)]
    /\ applied' = [applied EXCEPT
          ![w] = Append(applied[w],
                        PhoneNumberUpdated(agg[w].aggregateId, phoneNumber))]
    /\ op' = [name |-> "updatePhoneNumber", w |-> w, self |-> agg[w],
              phoneNumber |-> phoneNumber]
    /\ UNCHANGED <<storedEvents, replayFirst, eventsByAggregate>>

\* w calls userRepository.save on the aggregate it holds and keeps the result
Save(w) ==
    /\ agg[w] # NoAgg
    /\ Len(storedEvents) + Len(agg[w].uncommittedChanges) <= MaxLog
    /\ storedEvents' = save(agg[w], storedEvents).stored
    /\ agg' = [agg EXCEPT ![w] = save(agg[w], storedEvents).aggregate]
    /\ op' = [name |-> "save", w |-> w, self |-> agg[w],
              before |-> storedEvents]
    /\ UNCHANGED <<applied, replayFirst, eventsByAggregate>>

\* getById that stores the events it has replayed once more
GetById_WritesBack(w, id) ==
    /\ agg' = [agg EXCEPT ![w] = getById(storedEvents, id)]
    /\ applied' = [applied EXCEPT
          ![w] = loadEventsForAggregate(storedEvents, id,
                                        <<"UserCreated", "FirstNameUpdated">>)]
    /\ replayFirst' = [replayFirst EXCEPT ![w] = TRUE]
    /\ op' = [name |-> "getById", w |-> w, id |-> id]
    /\ storedEvents' = saveEvents(storedEvents, id,
                                  getById(storedEvents, id).committedChanges)
    /\ UNCHANGED eventsByAggregate

\* w calls userRepository.getById and keeps the result
GetById(w, id) ==
    /\ agg' = [agg EXCEPT ![w] = getById(storedEvents, id)]
    /\ applied' = [applied EXCEPT
          ![w] = loadEventsForAggregate(storedEvents, id,
                                        <<"UserCreated", "FirstNameUpdated">>)]
    /\ replayFirst' = [replayFirst EXCEPT ![w] = TRUE]
    /\ op' = [name |-> "getById", w |-> w, id |-> id]
    /\ UNCHANGED <<storedEvents, eventsByAggregate>>

\* userDirectoryRepository.load
Load ==
    /\ op' = [name |-> "load", ret |-> load(storedEvents)]
    /\ UNCHANGED <<storedEvents, agg, applied, replayFirst, eventsByAggregate>>

\* the event store used directly
NextStore ==
    \/ \E aggregateId \in Ids, events \in Batches :
          SaveEvents(aggregateId, events)
    \/ \E tags \in TagLists : LoadEvents(tags)
    \/ \E aggregateId \in Ids, tags \in TagLists :
          LoadEventsForAggregate(aggregateId, tags)

SpecStore == InitStore /\ [][NextStore]_vars

\* what one writer does short of saving: the domain operations and getById
WriterStep(w) ==
    \/ \E id \in Ids, f \in CreateNames, l \in LastNames,
          p \in Phones \cup {Undefined} : Create(w, id, f, l, p)
    \/ \E f \in UpdateNames : UpdateFirstName(w, f)
    \/ \E p \in Phones : UpdatePhoneNumber(w, p)
    \/ \E id \in Ids : GetById(w, id)

\* one writer, the repository and the directory
NextRepo ==
    \/ WriterStep("w1")
    \/ Save("w1")
    \/ Load

SpecRepo == Init /\ [][NextRepo]_vars

\* every operation on one store: the store used directly, a writer through
\* the repository, the directory
Next ==
    \/ \E event \in StoreEvents :
          SaveEvents(event.aggregateId, <<event>>)
            /\ Len(storedEvents') <= MaxShared
    \/ \E tags \in RepoTagLists : LoadEvents(tags)
    \/ \E aggregateId \in Ids, tags \in RepoTagLists :
          LoadEventsForAggregate(aggregateId, tags)
    \/ WriterStep("w1")
    \/ Save("w1") /\ Len(storedEvents') <= MaxShared
    \/ Load

Spec == Init /\ [][Next]_vars

----------------------------------------------------------------------------
(* Claims about the repository, checked under SpecRepo *)

\* C5: save appends exactly the uncommitted changes, in order, to the end of
\* the log and returns the aggregate with them moved behind the committed
\* ones, aggregateId, state and version as they were; so the number of
\* committed changes is then the version.
C5_SaveAppendsUncommitted ==
    op.name = "save" =>
        /\ storedEvents = op.before \o op.self.uncommittedChanges
        /\ agg[op.w].uncommittedChanges = <<>>
        /\ agg[op.w].committedChanges
              = op.self.committedChanges \o op.self.uncommittedChanges
        /\ agg[op.w].aggregateId = op.self.aggregateId
        /\ agg[op.w].state = op.self.state
        /\ agg[op.w].version = op.self.version
        /\ Len(agg[op.w].committedChanges) = agg[op.w].version

\* an aggregate loaded from the store and updated twice has been saved
C5_Witness ==
    /\ op.name = "save"
    /\ op.before # <<>>
    /\ op.self.committedChanges # <<>>
    /\ Len(op.self.uncommittedChanges) = 2
    /\ op.self.uncommittedChanges[1] # op.self.uncommittedChanges[2]

\* C6: getById of the entity just saved returns the state the aggregate had
\* when it was saved (names and phone number).
C6_SaveThenGetByIdRestoresState ==
    [][(/\ op.name = "save"
        /\ op'.name = "getById"
        /\ op'.w = op.w
        /\ op'.id = op.self.aggregateId)
       => agg'[op.w].state = op.self.state]_vars

\* the events stored for an entity, whatever their tag
EventsStoredFor(stored, id) ==
    SelectSeq(stored, LAMBDA e : e.aggregateId = id)

\* C7: getById returns the entity's whole stored history as committedChanges,
\* no uncommitted change, and the number of stored events as version.
C7_GetByIdReplaysAllStored ==
    op.name = "getById" =>
        /\ agg[op.w].uncommittedChanges = <<>>
        /\ agg[op.w].committedChanges = EventsStoredFor(storedEvents, op.id)
        /\ agg[op.w].version = Len(EventsStoredFor(storedEvents, op.id))

----------------------------------------------------------------------------
(* Claims about the event store, checked under SpecStore *)

\* what loadEventsForAggregate(id, all tags) returns
Partition(stored, id) == loadEventsForAggregate(stored, id, EventTags)

\* saveEvents has put events behind the partition of its entity and left
\* the other partitions alone
SavedIntoPartition ==
    /\ Partition(storedEvents, op.aggregateId)
          = Partition(op.before, op.aggregateId) \o op.events
    /\ \A id \in Ids \ {op.aggregateId} :
          Partition(storedEvents, id) = Partition(op.before, id)

\* C8 as stated: after saveEvents(entityId, evs), for every evs, the partition
\* of entityId is its previous content followed by evs and every other
\* partition is unchanged.
C8_SaveEventsExtendsPartition ==
    op.name = "saveEvents" => SavedIntoPartition

\* C8 amended: the same, for the evs whose events all carry entityId.
C8_SaveEventsExtendsPartitionOwn ==
    (/\ op.name = "saveEvents"
     /\ \A i \in DOMAIN op.events : op.events[i].aggregateId = op.aggregateId)
    => SavedIntoPartition

\* an event of the entity saved twice in one batch, behind a log that
\* already held it
C8_Witness ==
    /\ op.name = "saveEvents"
    /\ Len(op.events) = 2
    /\ op.events[1] = op.events[2]
    /\ op.events[1].aggregateId = op.aggregateId
    /\ Contains(op.before, op.events[1])
    /\ Len(storedEvents) = 3

\* result holds exactly the elements of stored at the positions in keep, in
\* the order of stored
IsSelection(result, stored, keep) ==
    /\ Len(result) = Cardinality(keep)
    /\ \A i \in keep : result[Cardinality({j \in keep : j <= i})] = stored[i]

TagSet(tags) == {tags[i] : i \in DOMAIN tags}

\* C9: loadEventsForAggregate(id, T) is the subsequence of the log made of
\* the events of id with a tag in T, loadEvents(T) the subsequence of the
\* events with a tag in T; nothing else is returned and nothing is left out.
C9_LoadsSelectInOrder ==
    /\ \A tags \in TagLists :
          IsSelection(loadEvents(storedEvents, tags), storedEvents,
              {i \in DOMAIN storedEvents :
                  storedEvents[i]._tag \in TagSet(tags)})
    /\ \A id \in Ids, tags \in TagLists :
          IsSelection(loadEventsForAggregate(storedEvents, id, tags), storedEvents,
              {i \in DOMAIN storedEvents :
                  /\ storedEvents[i].aggregateId = id
                  /\ storedEvents[i]._tag \in TagSet(tags)})
    /\ (op.name = "loadEvents" =>
          IsSelection(op.ret, storedEvents,
              {i \in DOMAIN storedEvents :
                  storedEvents[i]._tag \in TagSet(op.tags)}))
    /\ (op.name = "loadEventsForAggregate" =>
          IsSelection(op.ret, storedEvents,
              {i \in DOMAIN storedEvents :
                  /\ storedEvents[i].aggregateId = op.aggregateId
                  /\ storedEvents[i]._tag \in TagSet(op.tags)}))

\* two events returned around one of the same entity whose tag is not asked
\* for
C9_Witness ==
    /\ op.name = "loadEventsForAggregate"
    /\ Len(storedEvents) = 3
    /\ storedEvents[2].aggregateId = op.aggregateId
    /\ ~Contains(op.tags, storedEvents[2]._tag)
    /\ Len(op.tags) = 2
    /\ op.ret = <<storedEvents[1], storedEvents[3]>>

----------------------------------------------------------------------------
(* Claims about every operation on one store, checked under Spec *)

IsPrefix(s, t) == Len(s) <= Len(t) /\ SubSeq(t, 1, Len(s)) = s

\* C10: the log before any operation is a prefix of the log after it, so the
\* log at any point is a prefix of the log at every later point.
C10_AppendOnly == [][IsPrefix(storedEvents, storedEvents')]_vars

\* a save through the repository has extended a log that held events
C10_Witness ==
    /\ op.name = "save"
    /\ op.before # <<>>
    /\ Len(storedEvents) > Len(op.before)


----------------------------------------------------------------------------
(* Two writers on one store through the repository *)

\* longest log of the two-writer specification
MaxTwoLog == 3

\* most uncommitted changes a writer of the two-writer specification holds
MaxTwoPending == 1

\* the events the store of the two-writer specification may start with
SeedEvents ==
    {UserCreated("u1", "A", "S", Undefined), FirstNameUpdated("u2", "B")}

\* EventStore.makeInMemory(initialEvents); no aggregate is held yet
InitTwo ==
    /\ storedEvents \in UNION {[1..n -> SeedEvents] : n \in 0..1}
    /\ agg = [w \in Writers |-> NoAgg]
    /\ applied = [w \in Writers |-> <<>>]
    /\ replayFirst = [w \in Writers |-> TRUE]
    /\ op = [name |-> "makeInMemory"]
    /\ eventsByAggregate = <<>>

\* what one of two writers of entity u1 does; each call runs to completion
\* before the next one starts
TwoStep(w) ==
    \/ Create(w, "u1", "A", "S", Undefined)
    \/ UpdateFirstName(w, "B")
         /\ Len(agg'[w].uncommittedChanges) <= MaxTwoPending
    \/ UpdatePhoneNumber(w, "5")
         /\ Len(agg'[w].uncommittedChanges) <= MaxTwoPending
    \/ GetById(w, "u1")
    \/ Save(w) /\ Len(storedEvents') <= MaxTwoLog

NextTwo == TwoStep("w1") \/ TwoStep("w2")

SpecTwo == InitTwo /\ [][NextTwo]_vars

----------------------------------------------------------------------------
(* Claims about interleaved writers, checked under SpecTwo *)

\* s can be obtained from t by deleting elements
RECURSIVE IsSubsequence(_, _)
IsSubsequence(s, t) ==
    IF s = <<>> THEN TRUE
    ELSE IF t = <<>> THEN FALSE
    ELSE IF Head(s) = Head(t) THEN IsSubsequence(Tail(s), Tail(t))
    ELSE IsSubsequence(s, Tail(t))

\* C11: the committedChanges of every aggregate a writer holds (from getById
\* or save, domain operations in between, the writers interleaved in any
\* order) are an order-preserving subsequence of the events stored for its
\* entity: no event is marked committed before it is in the log.
C11_CommittedAreStored ==
    \A w \in Held :
        IsSubsequence(agg[w].committedChanges,
                      EventsStoredFor(storedEvents, agg[w].aggregateId))

\* both writers hold saved aggregates of the entity with different committed
\* changes, in a log that also holds an event of another entity
C11_Witness ==
    /\ op.name = "save"
    /\ Held = Writers
    /\ agg["w1"].aggregateId = agg["w2"].aggregateId
    /\ agg["w1"].committedChanges # <<>>
    /\ agg["w2"].committedChanges # <<>>
    /\ agg["w1"].committedChanges # agg["w2"].committedChanges
    /\ Len(EventsStoredFor(storedEvents, agg["w1"].aggregateId))
          < Len(storedEvents)


----------------------------------------------------------------------------
(* Claims about markChangesAsCommitted, checked under SpecAgg *)

\* C12: markChangesAsCommitted returns the aggregate with committedChanges
\* the old committedChanges followed by the whole old uncommittedChanges in
\* order, uncommittedChanges empty, and aggregateId, state and version as
\* they were.
C12_MarkMovesUncommitted ==
    op.name = "markChangesAsCommitted" =>
        /\ agg[op.w].committedChanges
              = op.self.committedChanges \o op.self.uncommittedChanges
        /\ agg[op.w].uncommittedChanges = <<>>
        /\ agg[op.w].aggregateId = op.self.aggregateId
        /\ agg[op.w].state = op.self.state
        /\ agg[op.w].version = op.self.version

\* two different uncommitted changes were moved behind a committed one
C12_Witness ==
    /\ op.name = "markChangesAsCommitted"
    /\ Len(op.self.committedChanges) = 1
    /\ Len(op.self.uncommittedChanges) = 2
    /\ op.self.uncommittedChanges[1] # op.self.uncommittedChanges[2]
    /\ Len(agg[op.w].committedChanges) = 3

\* C13: markChangesAsCommitted is idempotent: applied to its own result it
\* returns that result, and applied to an aggregate without uncommitted
\* changes it returns that aggregate.
C13_MarkIdempotent ==
    /\ \A w \in Held :
          /\ markChangesAsCommitted(markChangesAsCommitted(agg[w]))
                = markChangesAsCommitted(agg[w])
          /\ (agg[w].uncommittedChanges = <<>>
                => markChangesAsCommitted(agg[w]) = agg[w])
    /\ (op.name = "markChangesAsCommitted" =>
          /\ markChangesAsCommitted(agg[op.w]) = agg[op.w]
          /\ (op.self.uncommittedChanges = <<>> => agg[op.w] = op.self))

\* markChangesAsCommitted was called on an aggregate that holds committed
\* and uncommitted changes, so that a second call meets its result
C13_Witness ==
    /\ op.name = "markChangesAsCommitted"
    /\ op.self.committedChanges # <<>>
    /\ op.self.uncommittedChanges # <<>>
    /\ agg[op.w] # op.self


----------------------------------------------------------------------------
(* Claims about every operation on one store, continued; checked under Spec *)

\* Array.groupBy(initialEvents, e => e.aggregateId) of the partitioned store
RECURSIVE groupBy(_, _, _)
groupBy(events, acc, i) ==
    IF i > Len(events) THEN acc
    ELSE groupBy(events,
                 RecordSet(acc, events[i].aggregateId,
                           Append(IF RecordHas(acc, events[i].aggregateId)
                                  THEN RecordGet(acc, events[i].aggregateId)
                                  ELSE <<>>,
                                  events[i])),
                 i + 1)

\* loadEvents(aggregateId, tags) of the partitioned store
loadEventsPartitioned(partitions, aggregateId, tags) ==
    IF RecordHas(partitions, aggregateId)
    THEN SelectSeq(RecordGet(partitions, aggregateId),
                   LAMBDA e : hasMatchingTag(tags, e))
    ELSE <<>>

\* the aggregate of an entity nothing is known about
UnknownUser(id) ==
    [aggregateId |-> id,
     state |-> [firstName |-> "", lastName |-> "", displayName |-> "",
                phoneNumber |-> none],
     committedChanges |-> <<>>,
     uncommittedChanges |-> <<>>,
     version |-> 0]

\* C14: for an entity with no stored events loadEventsForAggregate returns
\* the empty sequence and getById returns the empty-state aggregate of that
\* id (empty names, no phone number, both change lists empty, version 0);
\* neither call fails nor changes the log. The partitioned store, seeded
\* with the same events, reads such an entity as the empty sequence too.
C14_UnknownEntityReadsEmpty ==
    [][/\ (/\ op'.name = "loadEventsForAggregate"
           /\ EventsStoredFor(storedEvents, op'.aggregateId) = <<>>)
          => (op'.ret = <<>> /\ storedEvents' = storedEvents)
       /\ (/\ op'.name = "getById"
           /\ EventsStoredFor(storedEvents, op'.id) = <<>>)
          => (agg'[op'.w] = UnknownUser(op'.id) /\ storedEvents' = storedEvents)
       /\ (/\ op'.name = "loadEventsForAggregate"
           /\ EventsStoredFor(storedEvents, op'.aggregateId) = <<>>)
          => loadEventsPartitioned(groupBy(storedEvents, <<>>, 1),
                                   op'.aggregateId, op'.tags) = <<>>]_vars

\* getById of an entity without events, on a log that holds events of
\* another entity, replaced the aggregate the writer held
C14_Witness ==
    /\ op.name = "getById"
    /\ storedEvents # <<>>
    /\ EventsStoredFor(storedEvents, op.id) = <<>>
    /\ agg[op.w].aggregateId = op.id
    /\ agg[op.w].version = 0
    /\ applied[op.w] = <<>>


----------------------------------------------------------------------------
(* Claims about the repository, continued; checked under SpecRepo *)

\* C15: create(id, f, l) yields version 1, displayName f, a space, l, exactly
\* one uncommitted UserCreated event and no committed event;
\* updateFirstName(n) on an aggregate at version v with last name l yields
\* version v + 1, firstName n, displayName n, a space, l, lastName and
\* phoneNumber as they were, and one more uncommitted FirstNameUpdated event.
C15_CreateAndUpdateFirstName ==
    /\ (op.name = "create" =>
          /\ agg[op.w].aggregateId = op.aggregateId
          /\ agg[op.w].version = 1
          /\ agg[op.w].state.displayName = op.firstName \o " " \o op.lastName
          /\ Len(agg[op.w].uncommittedChanges) = 1
          /\ agg[op.w].uncommittedChanges[1]._tag = "UserCreated"
          /\ agg[op.w].committedChanges = <<>>)
    /\ (op.name = "updateFirstName" =>
          /\ agg[op.w].version = op.self.version + 1
          /\ agg[op.w].state.firstName = op.firstName
          /\ agg[op.w].state.displayName
                = op.firstName \o " " \o op.self.state.lastName
          /\ agg[op.w].state.lastName = op.self.state.lastName
          /\ agg[op.w].state.phoneNumber = op.self.state.phoneNumber
          /\ Len(agg[op.w].uncommittedChanges)
                = Len(op.self.uncommittedChanges) + 1
          /\ SubSeq(agg[op.w].uncommittedChanges, 1,
                    Len(op.self.uncommittedChanges))
                = op.self.uncommittedChanges
          /\ agg[op.w].uncommittedChanges[Len(agg[op.w].uncommittedChanges)]._tag
                = "FirstNameUpdated")

\* a user created as A S and saved was renamed: version 2, display name B S
C15_Witness ==
    /\ op.name = "updateFirstName"
    /\ op.self.version = 1
    /\ op.self.uncommittedChanges = <<>>
    /\ op.self.state.displayName = "A S"
    /\ storedEvents = op.self.committedChanges
    /\ storedEvents[1]._tag = "UserCreated"
    /\ agg[op.w].version = 2
    /\ agg[op.w].state.displayName = "B S"


\* positions of the events of id with the given tag in stream S
PositionsOf(S, id, tag) ==
    {i \in DOMAIN S : S[i].aggregateId = id /\ S[i]._tag = tag}

Max(positions) == CHOOSE i \in positions : \A j \in positions : j <= i

\* ids with a UserCreated event in S
CreatedIds(S) == {S[i].aggregateId : i \in {j \in DOMAIN S : S[j]._tag = "UserCreated"}}

\* position of the most recent UserCreated event of a created id
LastCreated(S, id) == Max(PositionsOf(S, id, "UserCreated"))

\* positions of the events of id with the given tag behind its most recent
\* UserCreated event
LaterUpdates(S, id, tag) ==
    {i \in PositionsOf(S, id, tag) : i > LastCreated(S, id)}

\* the phone number of a created id at the end of S, as an option
PhoneAtEnd(S, id) ==
    IF LaterUpdates(S, id, "PhoneNumberUpdated") # {}
    THEN some(S[Max(LaterUpdates(S, id, "PhoneNumberUpdated"))].payload.phoneNumber)
    ELSE IF "phoneNumber" \in DOMAIN S[LastCreated(S, id)].payload
         THEN some(S[LastCreated(S, id)].payload.phoneNumber)
         ELSE none

\* the first name of a created id at the end of S
FirstNameAtEnd(S, id) ==
    IF LaterUpdates(S, id, "FirstNameUpdated") # {}
    THEN S[Max(LaterUpdates(S, id, "FirstNameUpdated"))].payload.firstName
    ELSE S[LastCreated(S, id)].payload.firstName

\* the directory entries S calls for
EntriesFor(S) ==
    {[id |-> id,
      displayName |-> FirstNameAtEnd(S, id) \o " "
                         \o S[LastCreated(S, id)].payload.lastName,
      phoneNumber |-> PhoneAtEnd(S, id).value] :
        id \in {c \in CreatedIds(S) : PhoneAtEnd(S, c) # none}}

\* C16: the directory built from an event stream has totalUsers the number
\* of distinct ids with a UserCreated event in it, exactly one entry for each
\* such id whose phone number is present at the end of the fold (from its
\* most recent UserCreated or a later PhoneNumberUpdated), that entry
\* carrying the phone number and firstName, a space, lastName as display
\* name, and usersWithPhone the number of entries, at most totalUsers.
C16_DirectoryCountsCreatedUsers ==
    op.name = "load" =>
        /\ op.ret = fromEvents(storedEvents)
        /\ op.ret.totalUsers = Cardinality(CreatedIds(storedEvents))
        /\ {op.ret.entries[i] : i \in DOMAIN op.ret.entries}
              = EntriesFor(storedEvents)
        /\ Len(op.ret.entries) = Cardinality(EntriesFor(storedEvents))
        /\ op.ret.usersWithPhone = Len(op.ret.entries)
        /\ op.ret.usersWithPhone <= op.ret.totalUsers

\* two users were created, the second one with a phone number: two users,
\* one of them listed
C16_Witness ==
    /\ op.name = "load"
    /\ Len(storedEvents) = 2
    /\ storedEvents[1]._tag = "UserCreated"
    /\ storedEvents[2]._tag = "UserCreated"
    /\ storedEvents[1].aggregateId # storedEvents[2].aggregateId
    /\ "phoneNumber" \notin DOMAIN storedEvents[1].payload
    /\ op.ret.totalUsers = 2
    /\ op.ret.usersWithPhone = 1
    /\ op.ret.entries = <<[id |-> storedEvents[2].aggregateId,
                           displayName |-> "A S", phoneNumber |-> "5"]>>

\* a listed user was created again without a phone number and is listed no
\* more
C16_WitnessRecreated ==
    /\ op.name = "load"
    /\ Len(storedEvents) = 3
    /\ storedEvents[1]._tag = "UserCreated"
    /\ storedEvents[2]._tag = "PhoneNumberUpdated"
    /\ storedEvents[3]._tag = "UserCreated"
    /\ CreatedIds(storedEvents) = {storedEvents[2].aggregateId}
    /\ op.ret.totalUsers = 1
    /\ op.ret.entries = <<>>


----------------------------------------------------------------------------
(* Claims about interleaved writers, continued; checked under SpecTwo *)

\* writer w holds one new event on the aggregate that the other writer
\* held, with one new event of its own, when it saved a moment ago; both
\* started from what getById returned while the entity was at version n
SavesConflict(w) ==
    /\ op.name = "save"
    /\ op.w # w
    /\ agg[w] # NoAgg
    /\ agg[w].aggregateId = op.self.aggregateId
    /\ op.self.committedChanges
          = getById(op.before, op.self.aggregateId).committedChanges
    /\ agg[w].committedChanges = op.self.committedChanges
    /\ Len(op.self.uncommittedChanges) = 1
    /\ Len(agg[w].uncommittedChanges) = 1
    /\ op.self.version = Len(op.self.committedChanges) + 1
    /\ agg[w].version = op.self.version

\* C17: save makes no version check and never rejects. When two writers
\* have loaded the same entity at version n and applied one new event each,
\* both saves complete whatever their order: the log ends with the two
\* events in save order and each writer's aggregate reports version n + 1
\* with its own event only behind the loaded ones.
C17_ConflictingSavesBothLand ==
    /\ [][\A w \in Writers :
            (SavesConflict(w) /\ op'.name = "save" /\ op'.w = w)
            => /\ storedEvents' = op.before \o op.self.uncommittedChanges
                                      \o agg[w].uncommittedChanges
               /\ agg'[w].version = agg[w].version
               /\ agg'[w].committedChanges
                     = agg[w].committedChanges \o agg[w].uncommittedChanges
               /\ agg'[w].uncommittedChanges = <<>>
               /\ agg'[op.w] = agg[op.w]
               /\ agg[op.w].version = op.self.version
               /\ agg[op.w].committedChanges
                     = op.self.committedChanges \o op.self.uncommittedChanges]_vars
    /\ [](\A w \in Held :
            Len(storedEvents) + Len(agg[w].uncommittedChanges) <= MaxTwoLog
            => ENABLED Save(w))

\* both writers loaded the created user, one renamed it and the other set
\* its phone number, and both have saved: three events in the log, both
\* aggregates at version 2
C17_Witness ==
    /\ op.name = "save"
    /\ Held = Writers
    /\ Len(op.before) = 2
    /\ Len(storedEvents) = 3
    /\ storedEvents[1]._tag = "UserCreated"
    /\ storedEvents[2] # storedEvents[3]
    /\ \A w \in Writers :
          /\ agg[w].version = 2
          /\ agg[w].uncommittedChanges = <<>>
          /\ agg[w].committedChanges[1] = storedEvents[1]
    /\ agg[op.w].committedChanges[2] = storedEvents[3]
    /\ \E w \in Writers \ {op.w} :
          agg[w].committedChanges[2] = storedEvents[2]


\* writer w holds, with uncommitted changes, the very aggregate value the
\* other writer saved a moment ago
SameValueSaved(w) ==
    /\ op.name = "save"
    /\ op.w # w
    /\ agg[w] = op.self
    /\ op.self.uncommittedChanges # <<>>

----------------------------------------------------------------------------
(* Claims about every operation on one store, continued; checked under Spec *)

\* C19: the saves are the only write path. getById, loadEvents,
\* loadEventsForAggregate and the directory's load leave the log as it is,
\* and every change of the log is the append made by a save of the
\* repository or a saveEvents of the store.
C19_OnlySavesWrite ==
    [][/\ (op'.name \in {"getById", "loadEvents", "loadEventsForAggregate",
                         "load"}
             => storedEvents' = storedEvents)
       /\ (storedEvents' # storedEvents
             => \/ /\ op'.name = "save"
                   /\ op'.before = storedEvents
                   /\ storedEvents'
                         = storedEvents \o op'.self.uncommittedChanges
                \/ /\ op'.name = "saveEvents"
                   /\ op'.before = storedEvents
                   /\ storedEvents' = storedEvents \o op'.events)]_vars

\* getById has replayed two stored events of an entity and the log still
\* holds just these
C19_Witness ==
    /\ op.name = "getById"
    /\ Len(storedEvents) = 2
    /\ agg[op.w].committedChanges = storedEvents


----------------------------------------------------------------------------
(* Claims about the repository, continued; checked under SpecRepo *)

\* aggregate a was derived as a single writer derives it: by create for an
\* entity without stored events, or by getById on this log followed by
\* updates
DerivedFrom(a, stored) ==
    /\ a.committedChanges = getById(stored, a.aggregateId).committedChanges
    /\ a.version = Len(a.committedChanges) + Len(a.uncommittedChanges)
    /\ (/\ a.uncommittedChanges # <<>>
        /\ a.uncommittedChanges[1]._tag = "UserCreated")
       => EventsStoredFor(stored, a.aggregateId) = <<>>

\* C20: under single-writer discipline, after an aggregate derived by create
\* or by getById and updates has been saved, getById of its entity returns
\* an aggregate with the version the saved aggregate had, so the version
\* read back is never below one seen before.
C20_SavedVersionIsReadBack ==
    [][(/\ op.name = "save"
        /\ DerivedFrom(op.self, op.before)
        /\ op'.name = "getById"
        /\ op'.w = op.w
        /\ op'.id = op.self.aggregateId)
       => /\ agg'[op.w].version = op.self.version
          /\ agg'[op.w].version >= agg[op.w].version]_vars


\* C21: save of an aggregate without uncommitted changes (what getById or
\* an earlier save returned) is a no-op: the log is unchanged and the
\* aggregate returned is the aggregate passed. So a second save of what save
\* returned gives back the same aggregate and leaves the log as the first
\* save left it.
C21_SaveOfCleanIsNoOp ==
    /\ (op.name = "save" /\ op.self.uncommittedChanges = <<>>)
          => (storedEvents = op.before /\ agg[op.w] = op.self)
    /\ op.name \in {"save", "getById"}
          => save(agg[op.w], storedEvents)
                = [stored |-> storedEvents, aggregate |-> agg[op.w]]

\* what an earlier save returned, two committed changes behind a log of
\* three events, has been saved again
C21_Witness ==
    /\ op.name = "save"
    /\ op.self.uncommittedChanges = <<>>
    /\ Len(op.self.committedChanges) = 2
    /\ Len(storedEvents) = 3
    /\ SubSeq(storedEvents, 2, 3) = op.self.committedChanges


----------------------------------------------------------------------------
(* A writer that saves an aggregate value and goes on with the value it    *)
(* passed instead of the one returned                                      *)

\* w calls userRepository.save on the aggregate it holds and ignores the
\* aggregate returned
SaveIgnoringResult(w) ==
    /\ agg[w] # NoAgg
    /\ Len(storedEvents) + Len(agg[w].uncommittedChanges) <= MaxLog
    /\ storedEvents' = save(agg[w], storedEvents).stored
    /\ op' = [name |-> "save", w |-> w, self |-> agg[w],
              before |-> storedEvents,
              ret |-> save(agg[w], storedEvents).aggregate]
    /\ UNCHANGED <<agg, applied, replayFirst, eventsByAggregate>>

NextReuse ==
    \/ WriterStep("w1")
    \/ Save("w1")
    \/ SaveIgnoringResult("w1")

SpecReuse == Init /\ [][NextReuse]_vars

\* the events getById asks the store for
CountedByGetById(events) ==
    SelectSeq(events, LAMBDA e : e._tag \in {"UserCreated", "FirstNameUpdated"})

\* the PhoneNumberUpdated events
PhoneUpdates(events) ==
    SelectSeq(events, LAMBDA e : e._tag = "PhoneNumberUpdated")

\* the step saves, for the second time in a row, the aggregate value the
\* writer went on with after the first save; the value was up to date with
\* the log when it was first saved
SavedTwice ==
    /\ op.name = "save"
    /\ "ret" \in DOMAIN op
    /\ agg[op.w] = op.self
    /\ op.self.uncommittedChanges # <<>>
    /\ CountedByGetById(op.self.committedChanges)
          = getById(op.before, op.self.aggregateId).committedChanges
    /\ op.self.version = Len(Changes(op.self))
    /\ op'.name = "save"
    /\ op'.self = op.self

\* the two saves have appended the uncommitted changes twice and returned
\* equal aggregates
AppendedTwice ==
    /\ storedEvents' = op.before \o op.self.uncommittedChanges
                           \o op.self.uncommittedChanges
    /\ op.ret = IF "ret" \in DOMAIN op' THEN op'.ret ELSE agg'[op'.w]

\* C22 as stated: saving the same aggregate value a twice appends its
\* uncommitted changes twice, both calls return equal aggregates, and
\* getById of the entity then has a version above a.version by the number of
\* duplicated UserCreated and FirstNameUpdated events.
C22_DoubleSaveRaisesVersion ==
    [][SavedTwice
       => /\ AppendedTwice
          /\ getById(storedEvents', op.self.aggregateId).version
                = op.self.version
                    + Len(CountedByGetById(op.self.uncommittedChanges))]_vars

\* C22 amended: the same, with the version of getById above a.version by
\* the number of duplicated UserCreated and FirstNameUpdated events and
\* below it by the number of PhoneNumberUpdated events among a's changes,
\* which getById does not replay.
C22_DoubleSaveRaisesCountedVersion ==
    [][SavedTwice
       => /\ AppendedTwice
          /\ getById(storedEvents', op.self.aggregateId).version
                  + Len(PhoneUpdates(Changes(op.self)))
                = op.self.version
                    + Len(CountedByGetById(op.self.uncommittedChanges))]_vars

\* a loaded user was renamed and the value saved twice: the rename is in the
\* log twice and getById reports version 3 for the value's version 2
C22_Witness ==
    /\ op.name = "save"
    /\ "ret" \in DOMAIN op
    /\ agg[op.w] = op.self
    /\ op.self.version = 2
    /\ Len(op.self.committedChanges) = 1
    /\ op.self.uncommittedChanges[1]._tag = "FirstNameUpdated"
    /\ storedEvents = op.self.committedChanges
                         \o op.self.uncommittedChanges
                         \o op.self.uncommittedChanges
    /\ getById(storedEvents, op.self.aggregateId).version = 3


----------------------------------------------------------------------------
(* The partitioned store next to the single-log store *)

\* saveEvents of the partitioned store that replaces the partition
saveEventsPartitioned_Replaces(partitions, aggregateId, events) ==
    RecordSet(partitions, aggregateId, events)

\* saveEvents(aggregateId, events) of the partitioned store
saveEventsPartitioned(partitions, aggregateId, events) ==
    RecordSet(partitions, aggregateId,
              appendAll(IF RecordHas(partitions, aggregateId)
                        THEN RecordGet(partitions, aggregateId)
                        ELSE <<>>,
                        events))

\* the batches whose events all belong to the entity they are saved for
OwnBatches(aggregateId) ==
    {events \in Batches :
        \A i \in DOMAIN events : events[i].aggregateId = aggregateId}

\* both makeInMemory(initialEvents), with the same seed
InitStores ==
    /\ storedEvents \in UNION {[1..n -> StoreEvents] : n \in 0..MaxBatch}
    /\ eventsByAggregate = groupBy(storedEvents, <<>>, 1)
    /\ agg = [w \in Writers |-> NoAgg]
    /\ applied = [w \in Writers |-> <<>>]
    /\ replayFirst = [w \in Writers |-> TRUE]
    /\ op = [name |-> "makeInMemory"]

\* saveEvents(aggregateId, events) called on both stores
SaveEventsBoth(aggregateId, events) ==
    /\ Len(storedEvents) + Len(events) <= MaxLog
    /\ storedEvents' = saveEvents(storedEvents, aggregateId, events)
    /\ eventsByAggregate'
          = saveEventsPartitioned(eventsByAggregate, aggregateId, events)
    /\ op' = [name |-> "saveEvents", aggregateId |-> aggregateId,
              events |-> events, before |-> storedEvents]
    /\ UNCHANGED <<agg, applied, replayFirst>>

\* loadEventsForAggregate(aggregateId, tags) of the single-log store and
\* loadEvents(aggregateId, tags) of the partitioned store
LoadEventsBoth(aggregateId, tags) ==
    /\ op' = [name |-> "loadEvents", aggregateId |-> aggregateId,
              tags |-> tags,
              ret |-> loadEventsForAggregate(storedEvents, aggregateId, tags),
              retPartitioned |->
                  loadEventsPartitioned(eventsByAggregate, aggregateId, tags)]
    /\ UNCHANGED <<storedEvents, eventsByAggregate, agg, applied, replayFirst>>

NextStores ==
    \/ \E aggregateId \in Ids :
          \E events \in OwnBatches(aggregateId) :
              SaveEventsBoth(aggregateId, events)
    \/ \E aggregateId \in Ids, tags \in TagLists :
          LoadEventsBoth(aggregateId, tags)

SpecStores == InitStores /\ [][NextStores]_vars

\* C23: seeded alike and given the same saveEvents(entityId, evs) calls, all
\* with events of entityId only, the partitioned store's loadEvents(id, T)
\* and the single-log store's loadEventsForAggregate(id, T) return the same
\* sequence for every id and every tag array T after every step.
C23_StoresReadAlike ==
    /\ \A id \in Ids, tags \in TagLists :
          loadEventsPartitioned(eventsByAggregate, id, tags)
             = loadEventsForAggregate(storedEvents, id, tags)
    /\ (op.name = "loadEvents" => op.retPartitioned = op.ret)

\* after saves for two entities in turn, both stores returned the first and
\* the third event of the log for the entity of these two
C23_Witness ==
    /\ op.name = "loadEvents"
    /\ Len(storedEvents) = 3
    /\ storedEvents[1].aggregateId = op.aggregateId
    /\ storedEvents[2].aggregateId # op.aggregateId
    /\ storedEvents[3].aggregateId = op.aggregateId
    /\ Len(eventsByAggregate) = 2
    /\ op.ret = <<storedEvents[1], storedEvents[3]>>
    /\ op.retPartitioned = op.ret


----------------------------------------------------------------------------
(* Claims about the directory fold, checked under Spec *)

\* positions of the update events of S whose id has no UserCreated event
\* before them
Orphans(S) ==
    {i \in DOMAIN S :
        /\ S[i]._tag \in {"FirstNameUpdated", "PhoneNumberUpdated"}
        /\ \A j \in 1..(i - 1) :
              ~(S[j]._tag = "UserCreated" /\ S[j].aggregateId = S[i].aggregateId)}

\* S from position i on without the events at its orphan positions
RECURSIVE WithoutOrphans(_, _)
WithoutOrphans(S, i) ==
    IF i > Len(S) THEN <<>>
    ELSE IF i \in Orphans(S) THEN WithoutOrphans(S, i + 1)
    ELSE <<S[i]>> \o WithoutOrphans(S, i + 1)

\* the accumulator of the directory fold after the first i events of S
FoldedUpTo(S, i) == reduceDirectory(SubSeq(S, 1, i), <<>>, 1)

\* C24: a FirstNameUpdated or PhoneNumberUpdated event whose id has no
\* earlier UserCreated event in the stream leaves the accumulator of the
\* directory fold as it was: no user is created or counted for it, and the
\* directory is the one of the stream without that event, so its value is
\* forgotten when a UserCreated event of the id comes later.
C24_OrphanUpdatesAreIgnored ==
    /\ \A i \in Orphans(storedEvents) :
          /\ FoldedUpTo(storedEvents, i) = FoldedUpTo(storedEvents, i - 1)
          /\ ~RecordHas(FoldedUpTo(storedEvents, i), storedEvents[i].aggregateId)
    /\ fromEvents(storedEvents) = fromEvents(WithoutOrphans(storedEvents, 1))
    /\ (op.name = "load" =>
          /\ op.ret = load(WithoutOrphans(storedEvents, 1))
          /\ op.ret.totalUsers
                = Cardinality(CreatedIds(WithoutOrphans(storedEvents, 1))))

\* the directory was loaded from a phone number update of an unknown user
\* followed by the creation of that user without a phone number: one user,
\* not listed
C24_Witness ==
    /\ op.name = "load"
    /\ Len(storedEvents) = 2
    /\ storedEvents[1]._tag = "PhoneNumberUpdated"
    /\ storedEvents[2]._tag = "UserCreated"
    /\ storedEvents[2].aggregateId = storedEvents[1].aggregateId
    /\ Orphans(storedEvents) = {1}
    /\ op.ret.totalUsers = 1
    /\ op.ret.entries = <<>>


----------------------------------------------------------------------------
(* Claims about the events of an aggregate, checked under SpecRepo *)

\* what loadEventsForAggregate(id, all tags) returns holds event e
ReturnedFor(id, e) ==
    Contains(loadEventsForAggregate(storedEvents, id, EventTags), e)

\* C25: every event in the committed and uncommitted changes of an
\* aggregate reached by create, getById, the updates and save carries the
\* aggregate's id; so every event a save has written is returned by
\* loadEventsForAggregate for the id of the aggregate saved and for no other
\* id, then and later.
C25_EventsCarryOwnId ==
    /\ \A w \in Held :
          \A i \in DOMAIN Changes(agg[w]) :
              Changes(agg[w])[i].aggregateId = agg[w].aggregateId
    /\ (op.name = "save" =>
          \A i \in DOMAIN op.self.uncommittedChanges :
              /\ ReturnedFor(op.self.aggregateId, op.self.uncommittedChanges[i])
              /\ \A id \in Ids \ {op.self.aggregateId} :
                    ~ReturnedFor(id, op.self.uncommittedChanges[i]))
    /\ \A i \in DOMAIN storedEvents :
          {id \in Ids : ReturnedFor(id, storedEvents[i])}
             = {storedEvents[i].aggregateId}

\* two uncommitted changes were saved behind an event of the other entity
C25_Witness ==
    /\ op.name = "save"
    /\ Len(op.before) = 1
    /\ op.before[1].aggregateId # op.self.aggregateId
    /\ Len(op.self.uncommittedChanges) = 2
    /\ loadEventsForAggregate(storedEvents, op.self.aggregateId, EventTags)
          = op.self.uncommittedChanges


----------------------------------------------------------------------------
(* Claims about the directory and the repository, checked under Spec *)

\* C26: the directory and the aggregate agree on names: in every state of
\* the store, every entry of the directory that load returns has the
\* displayName of the state of getById of its id.
C26_DirectoryNamesAreAggregateNames ==
    /\ \A i \in DOMAIN load(storedEvents).entries :
          load(storedEvents).entries[i].displayName
             = getById(storedEvents, load(storedEvents).entries[i].id)
                  .state.displayName
    /\ (op.name = "load" =>
          \A i \in DOMAIN op.ret.entries :
              op.ret.entries[i].displayName
                 = getById(storedEvents, op.ret.entries[i].id).state.displayName)

\* the directory lists a user created with a phone number and renamed since
C26_Witness ==
    /\ op.name = "load"
    /\ Len(storedEvents) = 2
    /\ storedEvents[2]._tag = "FirstNameUpdated"
    /\ Len(op.ret.entries) = 1
    /\ op.ret.entries[1].displayName = "B S"
    /\ getById(storedEvents, op.ret.entries[1].id).state.firstName = "B"

----------------------------------------------------------------------------
(* Claims about successive loads of the directory, checked under SpecRepo *)

\* C27: over the saves of the repository the totalUsers that load returns
\* never decreases: load returns the directory of the log as it is, and no
\* step that changes the log lowers the totalUsers of its directory.
\* (usersWithPhone may decrease.)
C27_TotalUsersNeverDecreases ==
    [][/\ (storedEvents' # storedEvents =>
              load(storedEvents').totalUsers >= load(storedEvents).totalUsers)
       /\ (op'.name = "load" => op'.ret = load(storedEvents'))]_vars

\* a save has created a listed user again without a phone number: the
\* directory of the log still counts it and lists it no more
C27_Witness ==
    /\ op.name = "save"
    /\ load(op.before).totalUsers = 1
    /\ load(op.before).usersWithPhone = 1
    /\ load(storedEvents).totalUsers = 1
    /\ load(storedEvents).usersWithPhone = 0

====
